---- MODULE Spec2Model ----
(***************************************************************************)
(* Model of serial-image-capture.py: the ingestion thread (ImageRxTask.run) *)
(* that frames and decodes base64 image lines, the single-slot handoff      *)
(* between ImageRxTask and GUI (GUI.update_image / GUI.refresh_image, built *)
(* on GUI.img and GUI.img_mutex), and the port lifecycle                    *)
(* (GUI.on_connect_clicked, ImageRxTask.connect, GUI.refresh_serial_list).  *)
(*                                                                          *)
(* Three specifications share the variables:                                *)
(*   SpecRx      the ingestion loop, byte by byte, over streams built from  *)
(*               a catalogue of lines, delivered in arbitrary chunks;       *)
(*   SpecMailbox update_image and refresh_image interleaved statement by    *)
(*               statement;                                                 *)
(*   SpecPort    connect clicks, port enumeration and reconciliation.       *)
(***************************************************************************)
EXTENDS Integers, Sequences, FiniteSets, TLC

VARIABLES
    \* ---- ImageRxTask.run ------------------------------------------------
    stream,       \* the bytes the loop receives from the device
    lines,        \* what stream was built from (history): catalogue lines,
                  \* or in SpecFrame the description of a frame
    sent,         \* how many bytes of stream reached the serial input buffer
    nread,        \* how many bytes of stream self.ser.read() has returned
    rx_pc,        \* "poll": at line 412; "read": in the loop of line 413
    rx_buf,       \* run's local rx_buf
    rx_mode,      \* run's local rx_mode
    idx,          \* run's local idx (Unbound before its first assignment)
    rx_img,       \* run's local img: <<>> while unbound, else <<frame>>
    emitted,      \* history: the (kind, payload) handed to a decoder
    published,    \* history: the frames passed to GUI.update_image
    rx_event,     \* what the last loop iteration did
    \* ---- GUI.img / GUI.img_mutex and the two methods that use them ------
    img,          \* GUI.img: <<>> while the attribute is unset, else <<frame>>
    img_mutex,    \* GUI.img_mutex: TRUE while the lock is held
    up_pc,        \* update_image: "idle", "assign" (l.304), "release" (l.307)
    up_arg,       \* update_image's parameter img
    gui_pc,       \* refresh_image: "idle", "size", "disp", "draw"
    img_size,     \* refresh_image's img_w, img_h: the frame they were read from
    disp_img,     \* refresh_image's disp_img: the frame it was taken from
    npub,         \* history: number of assignments to GUI.img
    ntick,        \* history: number of refresh_image calls started
    reads,        \* history: <<tick, frame, npub>> for every read of GUI.img
    rendered,     \* history: <<tick, frame>> for every frame drawn
    took,         \* history: did the last refresh_image call acquire the lock
    fresh,        \* history: update_image calls completed since the last take
    assigned,     \* history: assignments to GUI.img since the last take
    tick_fresh,   \* history: fresh when the last refresh_image call began
    tick_pub,     \* history: npub when the last refresh_image call began
    \* ---- port lifecycle -------------------------------------------------
    connected,    \* GUI.connected
    port,         \* GUI.port
    var_port,     \* GUI.var_port (the menu's selection)
    var_baud,     \* GUI.var_baud (the entry's content)
    available_ports, \* GUI.available_ports (the menu's entries)
    ser_open,     \* ImageRxTask.ser.is_open
    ser_port,     \* ImageRxTask.ser.port
    devices,      \* the ports serial.tools.list_ports.comports() would list
    port_event,   \* what the last step of the port lifecycle did
    link_down     \* history: the port was closed, or a poll or read on it
                  \* raised, since the last connect that succeeded

rxVars == <<stream, lines, sent, nread, rx_pc, rx_buf, rx_mode, idx, rx_img,
            emitted, published, rx_event>>
boxVars == <<img, img_mutex>>
mbVars == <<up_pc, up_arg, gui_pc, img_size, disp_img, npub, ntick, reads,
            rendered, took, fresh, assigned, tick_fresh,
            tick_pub>>
portVars == <<connected, port, var_port, var_baud, available_ports, ser_open,
              ser_port, devices, port_event, link_down>>
vars == <<rxVars, boxVars, mbVars, portVars>>

----------------------------------------------------------------------------
\* Bounds of the model.

\* Lines per stream.
MaxLines == 2
\* Frames the ingestion thread passes to update_image (SpecMailbox).
MaxFrames == 3
\* Calls of refresh_image (SpecMailbox).
MaxTicks == 3
\* Most bytes waiting in the serial input buffer after a partial delivery
\* (a delivery may also hand over all the rest of the stream at once).
MaxPending == 2

----------------------------------------------------------------------------
\* Constants of the program.

EIML_HEADER_SIZE == 12
EIML_SOF_SIZE == 3
EIML_FORMAT_SIZE == 1
EIML_WIDTH_SIZE == 4
EIML_HEIGHT_SIZE == 4
EIML_SOF_B64 == <<47, 54, 68, 47>>        \* b'/6D/'
JPEG_SOF_B64 == <<47, 57, 106, 47>>       \* b'/9j/'
EIML_RESERVED == 0
EIML_GRAYSCALE == 1
EIML_RGB888 == 2
RX_STRING == 0
RX_JPEG == 1
RX_EIML == 2
OK == 0
ERR == 1
LF == 10
CR == 13
\* idx before line 464 first runs.
Unbound == -1

----------------------------------------------------------------------------
\* Helpers on byte sequences.

Min(a, b) == IF a < b THEN a ELSE b

\* Python's s[a:b] on bytes (0-based, half-open, clipped to the length).
Slice(s, a, b) == SubSeq(s, a + 1, Min(b, Len(s)))

\* Mutant of SliceFrom: a slice that starts one byte early.
SliceFrom_OneEarly(s, a) == SubSeq(s, a, Len(s))

\* Python's s[a:].
SliceFrom(s, a) == SubSeq(s, a + 1, Len(s))

\* The sum int.from_bytes(s, 'little') computes; the empty slice gives 0.
RECURSIVE LittleSum(_)
LittleSum(s) ==
    IF s = <<>> THEN 0 ELSE s[1] + 256 * LittleSum(Tail(s))

\* A header field of 2^31 or more. Python's integers hold it; the integers
\* of this model, like C's int, do not. All the loop does with a width or a
\* height is hand it to Image.frombytes, so the field stands as TooWide.
TooWide == -2

\* int.from_bytes(s, 'little') of a slice of at most four bytes.
FromBytesLittle(s) ==
    IF Len(s) >= 4 /\ s[4] >= 128 THEN TooWide ELSE LittleSum(s)

\* n.to_bytes(4, 'little'), as the sender writes width and height.
ToBytesLittle4(n) ==
    << n % 256, (n \div 256) % 256, (n \div 65536) % 256, (n \div 16777216) % 256 >>

RECURSIVE Concat(_)
Concat(ss) == IF ss = <<>> THEN <<>> ELSE Head(ss) \o Concat(Tail(ss))

----------------------------------------------------------------------------
\* base64, as base64.b64decode(s) (validate=False) computes it.

\* The 6-bit value of an alphabet character, -1 for any other byte.
B64Val(c) ==
    IF c >= 65 /\ c <= 90 THEN c - 65
    ELSE IF c >= 97 /\ c <= 122 THEN c - 71
    ELSE IF c >= 48 /\ c <= 57 THEN c + 4
    ELSE IF c = 43 THEN 62
    ELSE IF c = 47 THEN 63
    ELSE -1

B64Pad == 61    \* '='

\* binascii.a2b_base64 in its non-strict mode: bytes outside the alphabet
\* are skipped, a completed pad sequence ends the input, and leftover
\* characters of an unfinished quad raise binascii.Error.

IsB64(c) == B64Val(c) >= 0

\* The alphabet characters among the first n bytes of s.
B64Chars(s, n) == SelectSeq(SubSeq(s, 1, n), IsB64)

\* The pad characters met since the last alphabet character before s[i].
PadsBefore(s, i) ==
    Cardinality({ j \in 1 .. (i - 1) :
                    /\ s[j] = B64Pad
                    /\ \A k \in j .. (i - 1) : ~IsB64(s[k]) })

\* Does the pad character s[i] complete its quad: it is the first pad after
\* three characters of the quad, or the second after two.
PadEnds(s, i) ==
    /\ s[i] = B64Pad
    /\ \/ Len(B64Chars(s, i - 1)) % 4 = 3
       \/ Len(B64Chars(s, i - 1)) % 4 = 2 /\ PadsBefore(s, i) >= 1

\* Where decoding stops: at the first pad that completes its quad, or past
\* the end of s.
B64Stop(s) ==
    IF \E i \in 1 .. Len(s) : PadEnds(s, i)
    THEN CHOOSE i \in 1 .. Len(s) :
             PadEnds(s, i) /\ \A j \in 1 .. (i - 1) : ~PadEnds(s, j)
    ELSE Len(s) + 1

\* The byte at place r (0, 1, 2) of the triple decoded from the quad that
\* follows the first g of the 6-bit values v.
B64Byte(v, g, r) ==
    IF r = 0 THEN v[g + 1] * 4 + (v[g + 2] \div 16)
    ELSE IF r = 1 THEN (v[g + 2] % 16) * 16 + (v[g + 3] \div 4)
    ELSE (v[g + 3] % 4) * 64 + v[g + 4]

\* The n bytes decoded from the 6-bit values v.
B64Out(v, n) ==
    SubSeq([k \in 1 .. n |-> B64Byte(v, 4 * ((k - 1) \div 3), (k - 1) % 3)],
           1, n)

\* The output for the q characters cs decoded before the stop: three bytes
\* for every quad, and one or two for a last quad of two or three
\* characters. A last quad that no pad completed is the error.
B64Bytes(cs, q, stopped) ==
    [ok |-> stopped \/ q % 4 = 0,
     bytes |-> B64Out([n \in 1 .. q |-> B64Val(cs[n])],
                      3 * (q \div 4) + (IF q % 4 >= 2 THEN (q % 4) - 1 ELSE 0))]

\* The decoding of the characters cs that precede the stop.
B64Upto(cs, stopped) == B64Bytes(cs, Len(cs), stopped)

A2B(s, stop) == B64Upto(B64Chars(s, stop - 1), stop <= Len(s))

\* base64.b64decode(s): ok = FALSE stands for the exception it raises.
B64Decode(s) == A2B(s, B64Stop(s))

\* The sender's side: the alphabet character of a 6-bit value.
B64Char(v) ==
    IF v < 26 THEN v + 65
    ELSE IF v < 52 THEN v + 71
    ELSE IF v < 62 THEN v - 4
    ELSE IF v = 62 THEN 43
    ELSE 47

\* The sender's side: standard base64 with '=' padding.
RECURSIVE B64Encode(_)
B64Encode(b) ==
    IF b = <<>> THEN <<>>
    ELSE IF Len(b) = 1
    THEN << B64Char(b[1] \div 4), B64Char((b[1] % 4) * 16), B64Pad, B64Pad >>
    ELSE IF Len(b) = 2
    THEN << B64Char(b[1] \div 4),
            B64Char((b[1] % 4) * 16 + (b[2] \div 16)),
            B64Char((b[2] % 16) * 4), B64Pad >>
    ELSE << B64Char(b[1] \div 4),
            B64Char((b[1] % 4) * 16 + (b[2] \div 16)),
            B64Char((b[2] % 16) * 4 + (b[3] \div 64)),
            B64Char(b[3] % 64) >> \o B64Encode(SubSeq(b, 4, Len(b)))

----------------------------------------------------------------------------
\* The image library, as the ingestion loop uses it.

\* A decoded image: its size and its pixels in row-major RGB.
Frame(w, h, px) == [w |-> w, h |-> h, px |-> px]

\* Image.frombytes(mode, (w, h), data, 'raw') with bpp bytes per pixel. The
\* raw decoder raises ValueError ("not enough image data") when data is
\* shorter than the image; it stops reading once the image is full, so
\* surplus bytes are ignored. An image with a zero dimension is created
\* without decoding anything. A dimension that does not fit a C int raises
\* OverflowError when the image is allocated. The size test is w * h * bpp
\* > len(data), computed without leaving the model's integers.
FromBytes(bpp, w, h, data) ==
    IF w = TooWide \/ h = TooWide
    THEN [ok |-> FALSE, px |-> <<>>]
    ELSE IF w = 0 \/ h = 0
    THEN [ok |-> TRUE, px |-> <<>>]
    ELSE IF w > Len(data) \/ h > Len(data) \/ Len(data) < w * h * bpp
    THEN [ok |-> FALSE, px |-> <<>>]
    ELSE [ok |-> TRUE, px |-> SubSeq(data, 1, w * h * bpp)]

\* img.convert(mode='RGB') of an 'L' image: each byte becomes three.
RECURSIVE ConvertRGB(_)
ConvertRGB(px) ==
    IF px = <<>> THEN <<>>
    ELSE << px[1], px[1], px[1] >> \o ConvertRGB(Tail(px))

\* Image.open(io.BytesIO(dec)). The compressed-image decoder is outside
\* the program; it stands here as: a stream is identified as an image when
\* it starts with the JPEG start-of-image marker FF D8 FF followed by the
\* APP0 marker byte E0 and two size bytes, and any other stream raises.
ImageOpen(dec) ==
    IF Len(dec) >= 6 /\ SubSeq(dec, 1, 4) = <<255, 216, 255, 224>>
    THEN [ok |-> TRUE, img |-> Frame(dec[5], dec[6], SliceFrom(dec, 6))]
    ELSE [ok |-> FALSE, img |-> Frame(0, 0, <<>>)]

----------------------------------------------------------------------------
\* ImageRxTask.run: what one iteration of the loop of line 413 does to the
\* locals of run. A scanner state is a record of those locals and of the
\* two histories.

NoEvent ==
    [lf |-> FALSE, mode |-> RX_STRING, calls |-> 0, escaped |-> FALSE,
     b64ok |-> FALSE, msg_len |-> 0, format |-> 0, width |-> 0, height |-> 0]

\* rx_buf[:-2]
DropLastTwo(buf) == SubSeq(buf, 1, Len(buf) - 2)

\* What a decode branch hands back: the locals idx and img afterwards, the
\* frames passed to update_image, whether an exception left the loop, and
\* what was parsed.
Decoded(idx1, img1, pub, escaped, b64ok, msg_len, format, width, height) ==
    [idx |-> idx1, rx_img |-> img1, pub |-> pub, escaped |-> escaped,
     b64ok |-> b64ok, msg_len |-> msg_len,
     format |-> format, width |-> width, height |-> height]

\* Lines 445-447 once b64decode returned dec: update_image is reached only
\* when Image.open did not raise.
OpenJpeg(s, dec, opened) ==
    IF dec.ok /\ opened.ok
    THEN Decoded(s.idx, << opened.img >>, << opened.img >>, FALSE,
                 TRUE, Len(dec.bytes), 0, 0, 0)
    ELSE Decoded(s.idx, s.rx_img, <<>>, FALSE,
                 dec.ok, Len(dec.bytes), 0, 0, 0)

\* Lines 443-449: the JPEG branch's try block. `except: pass` swallows
\* everything, a RuntimeError of update_image's release included.
DecodeJpegMsg(s, dec) == OpenJpeg(s, dec, ImageOpen(dec.bytes))

DecodeJpeg(s, payload) == DecodeJpegMsg(s, B64Decode(payload))

\* Lines 475-486 with the header parsed. The local img is assigned only in
\* the RGB888 and GRAYSCALE branches: for any other format line 486 passes
\* whatever img holds from an earlier frame (UnboundLocalError, caught,
\* when it holds nothing). A ValueError of Image.frombytes is caught
\* before update_image is reached.
MakeImage(s, msg_len, format, width, height, rgb, gray) ==
    IF \/ format = EIML_RGB888 /\ ~rgb.ok
       \/ format = EIML_GRAYSCALE /\ ~gray.ok
    THEN Decoded(EIML_HEADER_SIZE, s.rx_img, <<>>, FALSE,
                 TRUE, msg_len, format, width, height)
    ELSE IF format = EIML_RGB888
    THEN Decoded(EIML_HEADER_SIZE, << Frame(width, height, rgb.px) >>,
                 << Frame(width, height, rgb.px) >>, FALSE,
                 TRUE, msg_len, format, width, height)
    ELSE IF format = EIML_GRAYSCALE
    THEN Decoded(EIML_HEADER_SIZE,
                 << Frame(width, height, ConvertRGB(gray.px)) >>,
                 << Frame(width, height, ConvertRGB(gray.px)) >>, FALSE,
                 TRUE, msg_len, format, width, height)
    ELSE Decoded(EIML_HEADER_SIZE, s.rx_img, s.rx_img, FALSE,
                 TRUE, msg_len, format, width, height)

\* Lines 475-484: Image.frombytes on msg_dec[idx:] for either mode.
BuildImage(s, msg_len, format, width, height, data) ==
    MakeImage(s, msg_len, format, width, height,
              FromBytes(3, width, height, data),
              FromBytes(1, width, height, data))

\* Lines 464-472: the header fields, by position. The slices of lines 467
\* and 470 are clipped to the message, so a short header yields short (or
\* empty) width and height fields; only line 465 can raise (IndexError,
\* with idx = 3 already assigned).
ParseHeader(s, msg) ==
    IF Len(msg) <= EIML_SOF_SIZE
    THEN Decoded(EIML_SOF_SIZE, s.rx_img, <<>>, FALSE,
                 TRUE, Len(msg), 0, 0, 0)
    ELSE BuildImage(s, Len(msg), msg[EIML_SOF_SIZE + 1],
             FromBytesLittle(Slice(msg, EIML_SOF_SIZE + EIML_FORMAT_SIZE,
                 EIML_SOF_SIZE + EIML_FORMAT_SIZE + EIML_WIDTH_SIZE)),
             FromBytesLittle(Slice(msg,
                 EIML_SOF_SIZE + EIML_FORMAT_SIZE + EIML_WIDTH_SIZE,
                 EIML_SOF_SIZE + EIML_FORMAT_SIZE + EIML_WIDTH_SIZE
                     + EIML_HEIGHT_SIZE)),
             SliceFrom(msg, EIML_SOF_SIZE + EIML_FORMAT_SIZE
                                + EIML_WIDTH_SIZE + EIML_HEIGHT_SIZE))

\* Lines 459-490 once b64decode returned dec (ok = FALSE: it raised). When
\* it raised, idx is what earlier frames left; the handler's print(idx)
\* raises in its turn if idx was never assigned, and that exception leaves
\* the loop of line 413 for the handler of line 497.
DecodeEimlMsg(s, dec) ==
    IF ~dec.ok
    THEN Decoded(s.idx, s.rx_img, <<>>, s.idx = Unbound, FALSE, 0, 0, 0, 0)
    ELSE ParseHeader(s, dec.bytes)

DecodeEiml(s, payload) == DecodeEimlMsg(s, B64Decode(payload))

\* A scanner state.
Scanner(buf, mode, idx1, img1, em, pubd) ==
    [rx_buf |-> buf, rx_mode |-> mode, idx |-> idx1, rx_img |-> img1,
     emitted |-> em, published |-> pubd]

\* Lines 437-493 (and 453-493) with the branch's outcome d: the mode was
\* reset before decoding; line 493 clears the buffer unless an exception
\* left the loop, in which case rx_buf keeps the trimmed line.
AfterDecode(s, mode1, payload, d) ==
    [st |-> Scanner(IF d.escaped THEN payload ELSE <<>>, RX_STRING,
                    d.idx, d.rx_img,
                    Append(s.emitted, [kind |-> mode1, payload |-> payload]),
                    s.published \o d.pub),
     pub |-> d.pub,
     event |-> [lf |-> TRUE, mode |-> mode1,
                calls |-> Len(d.pub), escaped |-> d.escaped,
                b64ok |-> d.b64ok, msg_len |-> d.msg_len,
                format |-> d.format, width |-> d.width,
                height |-> d.height]]

\* Lines 425-493: the buffer ends with a line feed.
OnLineFeed(s, buf1, mode1) ==
    IF mode1 = RX_STRING
    THEN [st |-> Scanner(<<>>, RX_STRING, s.idx, s.rx_img, s.emitted,
                         s.published),
          pub |-> <<>>,
          event |-> [NoEvent EXCEPT !.lf = TRUE]]
    ELSE IF mode1 = RX_JPEG
    THEN AfterDecode(s, mode1, DropLastTwo(buf1),
                     DecodeJpeg(s, DropLastTwo(buf1)))
    ELSE AfterDecode(s, mode1, DropLastTwo(buf1),
                     DecodeEiml(s, DropLastTwo(buf1)))

\* Mutant of ModeAfter: a marker test on the end of the buffer.
ModeAfter_AtEnd(mode, buf1) ==
    IF mode # RX_STRING \/ Len(buf1) < Len(EIML_SOF_B64) THEN mode
    ELSE IF SubSeq(buf1, Len(buf1) - 3, Len(buf1)) = EIML_SOF_B64 THEN RX_EIML
    ELSE IF SubSeq(buf1, Len(buf1) - 3, Len(buf1)) = JPEG_SOF_B64 THEN RX_JPEG
    ELSE RX_STRING

\* Lines 418-423: the mode after the marker test on the whole buffer. The
\* second test overrides the first, and both run only in RX_STRING.
ModeAfter(mode, buf1) ==
    IF mode # RX_STRING THEN mode
    ELSE IF buf1 = EIML_SOF_B64 THEN RX_EIML
    ELSE IF buf1 = JPEG_SOF_B64 THEN RX_JPEG
    ELSE RX_STRING

\* Lines 425-426: is the last byte of the buffer a line feed.
Scan(s, buf1, mode1) ==
    IF buf1[Len(buf1)] # LF
    THEN [st |-> Scanner(buf1, mode1, s.idx, s.rx_img, s.emitted,
                         s.published),
          pub |-> <<>>, event |-> NoEvent]
    ELSE OnLineFeed(s, buf1, mode1)

\* Lines 416-493 for the bytes `chunk` returned by self.ser.read(): append,
\* look for a marker, and when the last byte is a line feed run the branch
\* of the current mode. The result carries the new scanner state (st), the
\* frames passed to update_image (pub) and the event.
RxStep(s, chunk) ==
    Scan(s, s.rx_buf \o chunk, ModeAfter(s.rx_mode, s.rx_buf \o chunk))

----------------------------------------------------------------------------
\* GUI.update_image and the lock, as state functions.

\* Mutant of ImgAfterAssign: a slot that keeps an unconsumed frame.
ImgAfterAssign_KeepUnconsumed(cur, mutex, f) ==
    IF ~mutex /\ cur # <<>> THEN cur ELSE << f >>

\* Line 304, self.img = img: the value of GUI.img afterwards. The
\* assignment is unconditional, whatever the slot and the lock hold.
ImgAfterAssign(cur, mutex, f) == << f >>

\* Line 307, self.img_mutex.release(): the lock afterwards. Releasing an
\* unlocked threading.Lock raises RuntimeError and leaves it unlocked.
MutexAfterRelease(mutex) == FALSE

\* Line 258, self.img_mutex.acquire(blocking=False): whether it succeeds.
\* It never waits.
AcquireSucceeds(mutex) == ~mutex

\* Mutant of MutexAfterRefresh: refresh_image releasing the lock on return.
MutexAfterRefresh_Released(mutex) == FALSE

\* Lines 258-294: the lock when refresh_image returns after having
\* acquired it. refresh_image holds no release, so it stays as it is: held.
MutexAfterRefresh(mutex) == mutex

\* Mutant of Rearmed: a timer that is not re-armed after an exception.
Rearmed_UnlessRaised(raised) == ~raised

\* Line 294, self.canvas.after(MAX_REFRESH, self.refresh_image): it stands
\* after the if and outside the try, so it runs on every call, whether the
\* lock was held, a frame was drawn, or the try block raised.
Rearmed(raised) == TRUE

\* Where refresh_image stands once a call is over: "idle", waiting for the
\* timer, or "stopped" when no timer was armed.
PcAfterTick(raised) == IF Rearmed(raised) THEN "idle" ELSE "stopped"

----------------------------------------------------------------------------
\* The lines a stream is made of. Each entry holds the bytes on the wire,
\* what the line is (kind), and for a well-formed image line the frame the
\* sender encoded.

SOF == <<255, 160, 255>>

\* The sender's side: header, pixel data, base64, CR LF.
EimlLine(format, width, height, data) ==
    B64Encode(SOF \o << format >> \o ToBytesLittle4(width)
                  \o ToBytesLittle4(height) \o data) \o << CR, LF >>

NoFrame == Frame(0, 0, <<>>)

Catalogue ==
    << \* 1: RGB888 1x1, well formed
       [bytes |-> EimlLine(EIML_RGB888, 1, 1, <<1, 2, 3>>),
        kind |-> "image", format |-> EIML_RGB888,
        frame |-> Frame(1, 1, <<1, 2, 3>>)],
       \* 2: GRAYSCALE 1x1, well formed
       [bytes |-> EimlLine(EIML_GRAYSCALE, 1, 1, <<7>>),
        kind |-> "image", format |-> EIML_GRAYSCALE,
        frame |-> Frame(1, 1, <<7, 7, 7>>)],
       \* 3: pixel format RESERVED
       [bytes |-> EimlLine(EIML_RESERVED, 1, 1, <<9, 9, 9>>),
        kind |-> "rejected", format |-> EIML_RESERVED, frame |-> NoFrame],
       \* 4: RGB888 2x1 declared, 3 of the 6 pixel bytes supplied
       [bytes |-> EimlLine(EIML_RGB888, 2, 1, <<1, 2, 3>>),
        kind |-> "rejected", format |-> EIML_RGB888, frame |-> NoFrame],
       \* 5: GRAYSCALE 1x1 declared, 3 pixel bytes supplied
       [bytes |-> EimlLine(EIML_GRAYSCALE, 1, 1, <<4, 5, 6>>),
        kind |-> "rejected", format |-> EIML_GRAYSCALE, frame |-> NoFrame],
       \* 6: the payload ends inside the 12-byte header (width 2, and one
       \* byte of height, 1; no pixel data)
       [bytes |-> B64Encode(SOF \o <<EIML_RGB888, 2, 0, 0, 0, 1>>)
                      \o << CR, LF >>,
        kind |-> "rejected", format |-> EIML_RGB888, frame |-> NoFrame],
       \* 7: invalid base64 (five characters): b'/6D/A\r\n'
       [bytes |-> EIML_SOF_B64 \o << 65, CR, LF >>,
        kind |-> "rejected", format |-> -1, frame |-> NoFrame],
       \* 8: a diagnostic line: b'hi\n'
       [bytes |-> << 104, 105, LF >>,
        kind |-> "plain", format |-> -1, frame |-> NoFrame],
       \* 9: a compressed image the decoder accepts
       [bytes |-> B64Encode(<<255, 216, 255, 224, 1, 1>>) \o << CR, LF >>,
        kind |-> "image", format |-> -1, frame |-> Frame(1, 1, <<>>)],
       \* 10: a compressed image the decoder refuses
       [bytes |-> B64Encode(<<255, 216, 255, 0, 0, 0>>) \o << CR, LF >>,
        kind |-> "rejected", format |-> -1, frame |-> NoFrame],
       \* 11: a marker that is not at the start of its line: b'x/6D/...'
       [bytes |-> << 120 >> \o EimlLine(EIML_RGB888, 1, 1, <<1, 2, 3>>),
        kind |-> "plain", format |-> -1, frame |-> NoFrame] >>

LineIds == 1 .. Len(Catalogue)

\* The sequences of 1 .. MaxLines lines.
LineSeqs == UNION { [1 .. n -> LineIds] : n \in 1 .. MaxLines }

StreamOf(ls) == Concat([i \in 1 .. Len(ls) |-> Catalogue[ls[i]].bytes])

\* The number of bytes of the stream up to the end of its k-th line.
RECURSIVE EndOfLine(_, _)
EndOfLine(ls, k) ==
    IF k = 0 THEN 0 ELSE EndOfLine(ls, k - 1) + Len(Catalogue[ls[k]].bytes)

----------------------------------------------------------------------------
\* Initial values of the variable groups.

ScannerInit == Scanner(<<>>, RX_STRING, Unbound, <<>>, <<>>, <<>>)

\* Lines 401-405, before the device has sent anything of the stream ls.
RxInit(ls) ==
    /\ lines = ls
    /\ stream = StreamOf(ls)
    /\ sent = 0
    /\ nread = 0
    /\ rx_pc = "poll"
    /\ rx_buf = ScannerInit.rx_buf
    /\ rx_mode = ScannerInit.rx_mode
    /\ idx = ScannerInit.idx
    /\ rx_img = ScannerInit.rx_img
    /\ emitted = <<>>
    /\ published = <<>>
    /\ rx_event = NoEvent

\* Lines 174-175: the lock is created and acquired; GUI.img is not set.
BoxInit ==
    /\ img = <<>>
    /\ img_mutex = TRUE

MbInit ==
    /\ up_pc = "idle"
    /\ up_arg = 0
    /\ gui_pc = "idle"
    /\ img_size = 0
    /\ disp_img = 0
    /\ npub = 0
    /\ ntick = 0
    /\ reads = <<>>
    /\ rendered = <<>>
    /\ took = FALSE
    /\ fresh = 0
    /\ assigned = 0
    /\ tick_fresh = 0
    /\ tick_pub = 0

INIT_BAUD == 230400

\* What the baud entry can hold: the initial rate, an integer the serial
\* library refuses (Serial.baudrate raises ValueError below 0), and text
\* that is no integer.
BaudEntries ==
    { [isint |-> TRUE, value |-> INIT_BAUD],
      [isint |-> TRUE, value |-> -1],
      [isint |-> FALSE, value |-> 0] }

\* What one step of the port lifecycle did: op is "init", "env", "edit",
\* "connect" (a click on Connect) or "refresh" (refresh_serial_list).
\*   outcome  of a click: "ok", "err" (connect returned ERR), "raised"
\*            (connect raised), "not_int", "no_port"
\*   returned what ImageRxTask.connect returned: <<>> when it was not
\*            called or raised
\*   lost     refresh_serial_list found the connected port missing
PortEvent(op, outcome, returned, lost) ==
    [op |-> op, outcome |-> outcome, returned |-> returned, lost |-> lost]

\* The port state in which bytes can arrive: a device is present and a
\* click on Connect has opened it.
PortOpenInit ==
    /\ connected = TRUE
    /\ port = "COM1"
    /\ var_port = "COM1"
    /\ var_baud = [isint |-> TRUE, value |-> INIT_BAUD]
    /\ available_ports = {"COM1"}
    /\ ser_open = TRUE
    /\ ser_port = "COM1"
    /\ devices = {"COM1"}
    /\ port_event = PortEvent("connect", "ok", << OK >>, FALSE)
    /\ link_down = FALSE

----------------------------------------------------------------------------
\* SpecRx: the ingestion loop.

\* self.ser.in_waiting
in_waiting == sent - nread

\* Mutant of ReadSize: read() returning everything that is waiting.
ReadSize_AllWaiting == in_waiting

\* The number of bytes self.ser.read() returns: size defaults to 1.
ReadSize == 1

\* The device's bytes reach the input buffer of the open port, at any time
\* and in chunks of any size: a few more of them (up to MaxPending
\* waiting), or all that is left of the stream.
Arrive ==
    /\ ser_open
    /\ sent < Len(stream)
    /\ \E n \in 1 .. (Len(stream) - sent) :
          /\ in_waiting + n <= MaxPending \/ sent + n = Len(stream)
          /\ sent' = sent + n
    /\ UNCHANGED <<stream, lines, nread, rx_pc, rx_buf, rx_mode, idx, rx_img,
                   emitted, published, rx_event>>
    /\ UNCHANGED <<boxVars, mbVars, portVars>>

\* Line 412: bytes are waiting, the loop of line 413 is entered.
Poll ==
    /\ rx_pc = "poll"
    /\ ser_open
    /\ in_waiting > 0
    /\ rx_pc' = "read"
    /\ UNCHANGED <<stream, lines, sent, nread, rx_buf, rx_mode, idx, rx_img,
                   emitted, published, rx_event>>
    /\ UNCHANGED <<boxVars, mbVars, portVars>>

\* Lines 413-493: one iteration. update_image runs inside it (lines 447 and
\* 486): it assigns GUI.img and releases the lock. When the handler of
\* line 489 raises, control reaches line 498 and the next poll.
ReadByte ==
    /\ rx_pc = "read"
    /\ ser_open
    /\ in_waiting > 0
    /\ LET n == ReadSize
           s == Scanner(rx_buf, rx_mode, idx, rx_img, emitted, published)
           r == RxStep(s, SubSeq(stream, nread + 1, nread + n))
       IN  /\ nread' = nread + n
           /\ rx_buf' = r.st.rx_buf
           /\ rx_mode' = r.st.rx_mode
           /\ idx' = r.st.idx
           /\ rx_img' = r.st.rx_img
           /\ emitted' = r.st.emitted
           /\ published' = r.st.published
           /\ rx_event' = r.event
           /\ rx_pc' = IF r.event.escaped THEN "poll" ELSE "read"
           /\ IF r.pub # <<>>
              THEN /\ img' = ImgAfterAssign(img, img_mutex, r.pub[1])
                   /\ img_mutex' = MutexAfterRelease(img_mutex)
              ELSE UNCHANGED boxVars
    /\ UNCHANGED <<stream, lines, sent>>
    /\ UNCHANGED <<mbVars, portVars>>

\* Lines 413 and 496: nothing is waiting, the thread sleeps and polls again.
Sleep ==
    /\ rx_pc = "read"
    /\ in_waiting = 0
    /\ rx_pc' = "poll"
    /\ UNCHANGED <<stream, lines, sent, nread, rx_buf, rx_mode, idx, rx_img,
                   emitted, published, rx_event>>
    /\ UNCHANGED <<boxVars, mbVars, portVars>>

InitRx ==
    /\ \E ls \in LineSeqs : RxInit(ls)
    /\ BoxInit
    /\ MbInit
    /\ PortOpenInit

NextRx == Arrive \/ Poll \/ ReadByte \/ Sleep

SpecRx == InitRx /\ [][NextRx]_vars

----------------------------------------------------------------------------
\* Properties of the ingestion loop (checked under SpecRx).

Last(s) == s[Len(s)]

\* Bytes per pixel of a displayable pixel format.
BytesPerPixel(format) == IF format = EIML_GRAYSCALE THEN 1 ELSE 3

\* The loop has just finished the k-th line of the stream.
AtEndOfLine(k) == nread = EndOfLine(lines, k) /\ rx_event.lf

\* C2: a RawImage frame whose pixel_format byte is neither Grayscale nor
\* RGB888 is rejected, whatever was received before it: processing it calls
\* update_image zero times. (The claim as stated; the code violates it.)
C2_UnsupportedFormatNeverPublishes ==
    \A k \in 1 .. Len(lines) :
        ( /\ AtEndOfLine(k)
          /\ Catalogue[lines[k]].format = EIML_RESERVED )
        => rx_event.calls = 0

\* C3: after a frame rejected by a decode error the next well-formed frame
\* of the stream is framed from its own first byte, decoded and published,
\* whatever was or was not received before. (The claim as stated; the code
\* violates it.)
C3_NextFrameAfterRejectIsPublished ==
    \A k \in 2 .. Len(lines) :
        ( /\ AtEndOfLine(k)
          /\ Catalogue[lines[k - 1]].kind = "rejected"
          /\ Catalogue[lines[k]].kind = "image" )
        => /\ rx_event.calls = 1
           /\ published # <<>>
           /\ Last(published) = Catalogue[lines[k]].frame
           /\ emitted # <<>>
           /\ Last(emitted).payload = DropLastTwo(Catalogue[lines[k]].bytes)

\* C5: a RawImage frame is published only if width * height *
\* bytes_per_pixel(format) equals the decoded payload length minus the 12
\* header bytes. (The claim as stated; the code violates it.)
C5_PublishedOnlyIfLengthMatches ==
    ( /\ rx_event.lf
      /\ rx_event.mode = RX_EIML
      /\ rx_event.calls = 1 )
    => /\ rx_event.format \in {EIML_GRAYSCALE, EIML_RGB888}
       /\ rx_event.width * rx_event.height * BytesPerPixel(rx_event.format)
              = rx_event.msg_len - EIML_HEADER_SIZE

\* The loop of line 413 run over `bytes`, all of them waiting from the
\* start: one byte per iteration.
RECURSIVE RunAll(_, _)
RunAll(s, bytes) ==
    IF bytes = <<>> THEN s
    ELSE RunAll(RxStep(s, << Head(bytes) >>).st, Tail(bytes))

\* C6: chunk-boundary independence. However the stream was split into
\* deliveries and polls, the frames handed to the decoders and the frames
\* published after nread bytes are those of the run in which all these
\* bytes were waiting at the first poll.
C6_ChunkBoundaryIndependent ==
    LET whole == RunAll(ScannerInit, SubSeq(stream, 1, nread))
    IN  /\ emitted = whole.emitted
        /\ published = whole.published

\* C6's case: a frame was published whole, and the following frame is split
\* across polls (the loop is back at the poll with a partial frame in
\* rx_buf and nothing waiting).
C6_Witness ==
    /\ published # <<>>
    /\ rx_pc = "poll"
    /\ rx_mode = RX_EIML
    /\ Len(rx_buf) > Len(EIML_SOF_B64)
    /\ in_waiting = 0
    /\ sent < Len(stream)

----------------------------------------------------------------------------
\* SpecMailbox: GUI.update_image, called on the ingestion thread, and
\* GUI.refresh_image, called by the Tk timer, statement by statement. The
\* frames are numbered in the order update_image receives them.

\* Lines 296-304: the ingestion thread calls update_image with its next
\* frame, and self.img is assigned.
UpdateAssign ==
    /\ up_pc = "idle"
    /\ npub < MaxFrames
    /\ up_arg' = npub + 1
    /\ img' = ImgAfterAssign(img, img_mutex, npub + 1)
    /\ npub' = npub + 1
    /\ assigned' = assigned + 1
    /\ up_pc' = "release"
    /\ UNCHANGED <<img_mutex, gui_pc, img_size, disp_img, ntick, reads,
                   rendered, took, fresh, tick_fresh, tick_pub>>
    /\ UNCHANGED <<rxVars, portVars>>

\* Line 307: the lock is released (RuntimeError, caught by the caller, when
\* it was not held) and update_image is over.
UpdateRelease ==
    /\ up_pc = "release"
    /\ img_mutex' = MutexAfterRelease(img_mutex)
    /\ fresh' = fresh + 1
    /\ up_pc' = "idle"
    /\ UNCHANGED <<img, up_arg, gui_pc, img_size, disp_img, npub, ntick,
                   reads, rendered, took, assigned, tick_fresh, tick_pub>>
    /\ UNCHANGED <<rxVars, portVars>>

\* Line 258: the timer calls refresh_image, which tries the lock without
\* waiting. When the lock is held the call is over (line 294 re-arms the
\* timer).
RefreshAcquire ==
    /\ gui_pc = "idle"
    /\ ntick < MaxTicks
    /\ ntick' = ntick + 1
    /\ tick_fresh' = fresh
    /\ tick_pub' = npub
    /\ IF AcquireSucceeds(img_mutex)
       THEN /\ img_mutex' = TRUE
            /\ took' = TRUE
            /\ fresh' = 0
            /\ assigned' = 0
            /\ gui_pc' = "size"
       ELSE /\ took' = FALSE
            /\ gui_pc' = PcAfterTick(FALSE)
            /\ UNCHANGED <<img_mutex, fresh, assigned>>
    /\ UNCHANGED <<img, up_pc, up_arg, img_size, disp_img, npub, reads,
                   rendered>>
    /\ UNCHANGED <<rxVars, portVars>>

\* Line 264: img_w, img_h = self.img.size. AttributeError while GUI.img is
\* unset; `except: pass` then ends the call, the lock still held.
RefreshSize ==
    /\ gui_pc = "size"
    /\ IF img = <<>>
       THEN /\ gui_pc' = PcAfterTick(TRUE)
            /\ img_mutex' = MutexAfterRefresh(img_mutex)
            /\ UNCHANGED <<img_size, reads>>
       ELSE /\ img_size' = img[1]
            /\ reads' = Append(reads, <<ntick, img[1], npub>>)
            /\ gui_pc' = "disp"
            /\ UNCHANGED img_mutex
    /\ UNCHANGED <<img, up_pc, up_arg, disp_img, npub, ntick, rendered, took,
                   fresh, assigned, tick_fresh, tick_pub>>
    /\ UNCHANGED <<rxVars, portVars>>

\* Lines 267-274: disp_img is self.img resized, or self.img itself; either
\* way self.img is read a second time.
RefreshDisp ==
    /\ gui_pc = "disp"
    /\ disp_img' = img[1]
    /\ reads' = Append(reads, <<ntick, img[1], npub>>)
    /\ gui_pc' = "draw"
    /\ UNCHANGED <<img, img_mutex, up_pc, up_arg, img_size, npub, ntick,
                   rendered, took, fresh, assigned, tick_fresh,
                   tick_pub>>
    /\ UNCHANGED <<rxVars, portVars>>

\* Lines 277-294: disp_img is drawn on the canvas, sized by img_w and
\* img_h, unless the drawing raises (`except: pass`); the timer is re-armed
\* and the call is over.
RefreshDraw ==
    /\ gui_pc = "draw"
    /\ \E drawn \in BOOLEAN :
          /\ rendered' = IF drawn THEN Append(rendered, <<ntick, disp_img>>)
                         ELSE rendered
          /\ gui_pc' = PcAfterTick(~drawn)
    /\ img_mutex' = MutexAfterRefresh(img_mutex)
    /\ UNCHANGED <<img, up_pc, up_arg, img_size, disp_img, npub, ntick, reads,
                   took, fresh, assigned, tick_fresh, tick_pub>>
    /\ UNCHANGED <<rxVars, portVars>>

InitMailbox ==
    /\ RxInit(<<>>)
    /\ BoxInit
    /\ MbInit
    /\ PortOpenInit

NextMailbox ==
    \/ UpdateAssign
    \/ UpdateRelease
    \/ RefreshAcquire
    \/ RefreshSize
    \/ RefreshDisp
    \/ RefreshDraw

SpecMailbox == InitMailbox /\ [][NextMailbox]_vars

\* The same under fair scheduling: the Tk timer runs refresh_image when it
\* is due, and a call that was started, of refresh_image or of
\* update_image, runs to its end. Nothing obliges the ingestion thread to
\* publish.
SpecMailboxFair ==
    /\ SpecMailbox
    /\ WF_vars(RefreshAcquire)
    /\ WF_vars(RefreshSize)
    /\ WF_vars(RefreshDisp)
    /\ WF_vars(RefreshDraw)
    /\ WF_vars(UpdateRelease)

----------------------------------------------------------------------------
\* Properties of the handoff (checked under SpecMailbox).

\* The reads of GUI.img made by refresh_image call number k.
ReadsOf(k) == { i \in 1 .. Len(reads) : reads[i][1] = k }

\* C1: latest-wins. A refresh_image call that takes the lock reads no frame
\* older than the last one assigned before it began (after update_image(A)
\* and update_image(B) it obtains B, never A), and, if nothing was assigned
\* since, exactly that one; a call that begins when no update_image has
\* completed since the last take finds the lock held and reads and draws
\* nothing.
C1_LatestWins ==
    /\ \A i \in ReadsOf(ntick) :
          /\ took
          /\ reads[i][2] >= tick_pub
          /\ reads[i][3] = tick_pub => reads[i][2] = tick_pub
    /\ (ntick > 0 /\ tick_fresh = 0) =>
          /\ ~took
          /\ ReadsOf(ntick) = {}
          /\ \A j \in 1 .. Len(rendered) : rendered[j][1] # ntick

\* C1's case: frames 1 and 2 were published before the first take, the
\* first call of refresh_image read frame 2 at both of its reads and drew
\* it, and the second call, with nothing published in between, found the
\* lock held.
C1_Witness ==
    /\ ntick = 2
    /\ gui_pc = "idle"
    /\ npub = 2
    /\ reads = << <<1, 2, 2>>, <<1, 2, 2>> >>
    /\ rendered = << <<1, 2>> >>
    /\ tick_fresh = 0
    /\ ~took

\* C4: within one refresh_image call that took a frame, the size (img_w,
\* img_h) and the image drawn come from one and the same frame. (The claim
\* as stated; the code violates it.)
C4_NoTornFrame ==
    gui_pc = "draw" => img_size = disp_img

\* C8: frames are observed in publication order. Every read of GUI.img
\* returns the frame most recently assigned at that moment, and no read
\* returns a frame older than an earlier read did.
C8_PublicationOrder ==
    /\ \A i \in 1 .. Len(reads) : reads[i][2] = reads[i][3]
    /\ \A i, j \in 1 .. Len(reads) : i < j => reads[i][2] <= reads[j][2]

\* C8's case: two different calls of refresh_image took two different
\* frames, the later call the later frame, while a third was never seen.
C8_Witness ==
    \E i, j \in 1 .. Len(reads) :
        /\ reads[i][1] < reads[j][1]
        /\ reads[i][2] < reads[j][2]
        /\ reads[j][2] - reads[i][2] >= 2

\* C9: a take clears the slot, so no published frame is drawn by two
\* different calls of refresh_image. (The claim as stated; the code
\* violates it.)
C9_DeliveredAtMostOnce ==
    \A i, j \in 1 .. Len(rendered) :
        rendered[i][2] = rendered[j][2] => rendered[i][1] = rendered[j][1]

----------------------------------------------------------------------------
\* SpecPort: the port lifecycle. The GUI callbacks run on the Tk thread,
\* one at a time, so each is one step.

PortNames == << "COM1", "COM2" >>
Ports == { PortNames[i] : i \in 1 .. Len(PortNames) }

\* Lines 313-319 (and 87-94): the names of the enumerated ports, or [""]
\* when there is none. The list is sorted and holds no name twice, so it is
\* kept as a set.
NewPorts(devs) == IF devs = {} THEN {""} ELSE devs

\* The first name of a sorted list of ports.
FirstPort(ps) ==
    IF ps = {""} THEN ""
    ELSE PortNames[CHOOSE i \in 1 .. Len(PortNames) :
                       /\ PortNames[i] \in ps
                       /\ \A j \in 1 .. (i - 1) : PortNames[j] \notin ps]

\* Lines 77-109 and 361: the GUI as constructed, whatever is plugged in.
PortInit ==
    /\ devices \in SUBSET Ports
    /\ connected = FALSE
    /\ port = ""
    /\ available_ports = NewPorts(devices)
    /\ var_port = FirstPort(NewPorts(devices))
    /\ var_baud = [isint |-> TRUE, value |-> INIT_BAUD]
    /\ ser_open = FALSE
    /\ ser_port = ""
    /\ port_event = PortEvent("init", "", <<>>, FALSE)
    /\ link_down = FALSE

\* A device is plugged in or unplugged. The Serial object notices nothing.
Plug ==
    /\ \E p \in Ports :
          devices' = IF p \in devices THEN devices \ {p} ELSE devices \cup {p}
    /\ port_event' = PortEvent("env", "", <<>>, FALSE)
    /\ UNCHANGED <<connected, port, var_port, var_baud, available_ports,
                   ser_open, ser_port, link_down>>
    /\ UNCHANGED <<rxVars, boxVars, mbVars>>

\* The user picks an entry of the port menu.
SelectPort ==
    /\ \E p \in available_ports : var_port' = p
    /\ port_event' = PortEvent("edit", "", <<>>, FALSE)
    /\ UNCHANGED <<connected, port, var_baud, available_ports, ser_open,
                   ser_port, devices, link_down>>
    /\ UNCHANGED <<rxVars, boxVars, mbVars>>

\* The user types into the baud entry.
EditBaud ==
    /\ \E b \in BaudEntries : var_baud' = b
    /\ port_event' = PortEvent("edit", "", <<>>, FALSE)
    /\ UNCHANGED <<connected, port, var_port, available_ports, ser_open,
                   ser_port, devices, link_down>>
    /\ UNCHANGED <<rxVars, boxVars, mbVars>>

\* Line 382, self.ser.baudrate = baud_rate: the setter raises ValueError
\* for a negative rate. The assignment stands outside connect's try blocks.
BaudrateRaises(baud_rate) == baud_rate < 0

\* Lines 376 and 396, self.ser.close(): the input buffer goes with the
\* port, so nothing is waiting afterwards (n bytes were read so far). What
\* the loop reads next is what arrives once the port is open again.
SentAfterClose(n, snt) == n

\* Lines 371-392, ImageRxTask.connect(p, baud_rate), given whether the
\* device lets itself be opened: the port is closed first; then either the
\* baudrate setter raises out of connect, or open() succeeds (OK) or
\* raises inside the try (ERR).
Connect(p, baud_rate, opens) ==
    IF BaudrateRaises(baud_rate)
    THEN [raised |-> TRUE, ret |-> <<>>, is_open |-> FALSE, ser_port |-> p]
    ELSE IF p \in devices /\ opens
    THEN [raised |-> FALSE, ret |-> << OK >>, is_open |-> TRUE, ser_port |-> p]
    ELSE [raised |-> FALSE, ret |-> << ERR >>, is_open |-> FALSE,
          ser_port |-> p]

\* Lines 186-212, GUI.on_connect_clicked. Text that is no integer ends the
\* handler at line 194 and an empty port name at line 200, both before
\* connect is called; an exception of connect ends it at line 206, before
\* self.connected is assigned. connect closes the port before it opens it,
\* and touches nothing of the ingestion loop.
OnConnectClicked ==
    \E opens \in BOOLEAN :
        IF ~var_baud.isint
        THEN /\ port_event' = PortEvent("connect", "not_int", <<>>, FALSE)
             /\ UNCHANGED <<connected, port, var_port, var_baud,
                            available_ports, ser_open, ser_port, devices,
                            link_down>>
             /\ UNCHANGED <<rxVars, boxVars, mbVars>>
        ELSE IF var_port = ""
        THEN /\ port' = var_port
             /\ port_event' = PortEvent("connect", "no_port", <<>>, FALSE)
             /\ UNCHANGED <<connected, var_port, var_baud, available_ports,
                            ser_open, ser_port, devices, link_down>>
             /\ UNCHANGED <<rxVars, boxVars, mbVars>>
        ELSE LET c == Connect(var_port, var_baud.value, opens)
             IN  /\ port' = var_port
                 /\ ser_open' = c.is_open
                 /\ ser_port' = c.ser_port
                 /\ link_down' = ~c.is_open
                 /\ sent' = SentAfterClose(nread, sent)
                 /\ connected' = IF c.raised THEN connected
                                 ELSE c.ret = << OK >>
                 /\ port_event' =
                        PortEvent("connect",
                                  IF c.raised THEN "raised"
                                  ELSE IF c.ret = << OK >> THEN "ok"
                                  ELSE "err",
                                  c.ret, FALSE)
                 /\ UNCHANGED <<var_port, var_baud, available_ports, devices>>
                 /\ UNCHANGED <<stream, lines, nread, rx_pc, rx_buf, rx_mode,
                                idx, rx_img, emitted, published, rx_event>>
                 /\ UNCHANGED <<boxVars, mbVars>>

\* Mutant of LostPort: a reconciliation that never gives the port up.
LostPort_Never(conn, p, new_ports) == FALSE

\* Line 322: is the connection considered lost.
LostPort(conn, p, new_ports) == conn /\ p \notin new_ports

\* Lines 309-340, GUI.refresh_serial_list: the ports are enumerated; a
\* connected port that is missing clears connected, port and the menu's
\* selection; the menu takes the new list. The Serial object is not
\* touched.
RefreshSerialList ==
    LET new_ports == NewPorts(devices)
        lost == LostPort(connected, port, new_ports)
    IN  /\ connected' = IF lost THEN FALSE ELSE connected
        /\ port' = IF lost THEN "" ELSE port
        /\ var_port' = IF lost THEN "" ELSE var_port
        /\ available_ports' = new_ports
        /\ port_event' = PortEvent("refresh", "", <<>>,
                                   connected /\ port \notin new_ports)
        /\ UNCHANGED <<var_baud, ser_open, ser_port, devices, link_down>>
        /\ UNCHANGED <<rxVars, boxVars, mbVars>>

InitPort ==
    /\ RxInit(<<>>)
    /\ BoxInit
    /\ MbInit
    /\ PortInit

NextPort ==
    \/ Plug
    \/ SelectPort
    \/ EditBaud
    \/ OnConnectClicked
    \/ RefreshSerialList

SpecPort == InitPort /\ [][NextPort]_vars

----------------------------------------------------------------------------
\* Properties of the port lifecycle (checked under SpecPort).

\* C7: every connect attempt that fails (the endpoint cannot be opened, or
\* the baud value is no integer or one the serial library rejects) is
\* reported as an error result, connect returning ERR, and leaves the
\* endpoint closed and GUI.connected False. (The claim as stated; the code
\* violates it.)
C7_FailedConnectLeavesDisconnected ==
    ( /\ port_event.op = "connect"
      /\ port_event.outcome \in {"err", "raised", "not_int"} )
    => /\ port_event.outcome # "raised"
       /\ port_event.returned # <<>> => port_event.returned = << ERR >>
       /\ ~ser_open
       /\ ~connected

\* C10: periodic reconciliation. A refresh_serial_list that runs while
\* connected is True and the port name is missing from the enumeration
\* clears connected and the port name; one that finds the name listed
\* leaves connected as it was; it never touches the serial endpoint; and
\* connected turns True only in a click on Connect that succeeded.
C10_Reconciliation ==
    [][ /\ ( /\ port_event'.op = "refresh"
             /\ connected
             /\ port \notin NewPorts(devices) )
           => (~connected' /\ port' = "" /\ port_event'.lost)
        /\ (port_event'.op = "refresh" /\ port \in NewPorts(devices))
           => connected' = connected
        /\ port_event'.op = "refresh"
           => (ser_open' = ser_open /\ ser_port' = ser_port)
        /\ (~connected /\ connected')
           => (port_event'.op = "connect" /\ port_event'.outcome = "ok")
      ]_vars

\* C10's case: refresh_serial_list has just run with the connected port
\* unplugged and has cleared connected.
C10_Witness ==
    /\ port_event.op = "refresh"
    /\ port_event.lost
    /\ ~connected
    /\ port = ""
    /\ ser_open

----------------------------------------------------------------------------
\* SpecLink: the ingestion loop over a port that is opened, closed and
\* reopened, and whose polls and reads can fail.

\* What the device sends in SpecLink: a raw image, a diagnostic line or a
\* compressed image.
LinkLineSeqs == { <<1>>, <<8>>, <<9>> }

\* Mutant of BufAfterError: a handler that discards the partial line.
BufAfterError_Cleared(buf) == <<>>

\* Lines 497-499: the handler of the outer try sleeps and passes; the
\* locals rx_buf and rx_mode are as the failing statement left them, and a
\* failing self.ser.in_waiting or self.ser.read() assigned nothing.
BufAfterError(buf) == buf

ModeAfterError(mode) == mode

\* Lines 412, 413, 416: self.ser.in_waiting or self.ser.read() raises on an
\* open port (the device failed, or the port is shared); line 497 catches
\* it and the loop polls again after its sleep. Nothing closes the port and
\* nothing tells the GUI.
TransportError ==
    /\ ser_open
    /\ rx_pc' = "poll"
    /\ rx_buf' = BufAfterError(rx_buf)
    /\ rx_mode' = ModeAfterError(rx_mode)
    /\ rx_event' = [NoEvent EXCEPT !.escaped = TRUE]
    /\ link_down' = TRUE
    /\ UNCHANGED <<stream, lines, sent, nread, idx, rx_img, emitted,
                   published>>
    /\ UNCHANGED <<connected, port, var_port, var_baud, available_ports,
                   ser_open, ser_port, devices, port_event>>
    /\ UNCHANGED <<boxVars, mbVars>>

\* Line 412 on a closed port: self.ser.in_waiting raises PortNotOpenError,
\* caught at line 497; the loop sleeps and polls again.
PortNotOpen ==
    /\ ~ser_open
    /\ rx_pc' = "poll"
    /\ rx_buf' = BufAfterError(rx_buf)
    /\ rx_mode' = ModeAfterError(rx_mode)
    /\ rx_event' = [NoEvent EXCEPT !.escaped = TRUE]
    /\ link_down' = TRUE
    /\ UNCHANGED <<stream, lines, sent, nread, idx, rx_img, emitted,
                   published>>
    /\ UNCHANGED <<connected, port, var_port, var_baud, available_ports,
                   ser_open, ser_port, devices, port_event>>
    /\ UNCHANGED <<boxVars, mbVars>>

\* Lines 394-396, ImageRxTask.close(): the port is closed, and that is all.
Close ==
    /\ ser_open' = FALSE
    /\ sent' = SentAfterClose(nread, sent)
    /\ link_down' = TRUE
    /\ port_event' = PortEvent("close", "", <<>>, FALSE)
    /\ UNCHANGED <<stream, lines, nread, rx_pc, rx_buf, rx_mode, idx, rx_img,
                   emitted, published, rx_event>>
    /\ UNCHANGED <<connected, port, var_port, var_baud, available_ports,
                   ser_port, devices>>
    /\ UNCHANGED <<boxVars, mbVars>>

InitLink ==
    /\ \E ls \in LinkLineSeqs : RxInit(ls)
    /\ BoxInit
    /\ MbInit
    /\ PortInit

NextLink ==
    \/ Arrive
    \/ Poll
    \/ ReadByte
    \/ Sleep
    \/ TransportError
    \/ PortNotOpen
    \/ Close
    \/ OnConnectClicked
    \/ Plug
    \/ RefreshSerialList

SpecLink == InitLink /\ [][NextLink]_vars

----------------------------------------------------------------------------
\* Properties of the link (checked under SpecLink).

\* C11: a transport error is terminal for the connection. Once the port
\* was closed or a poll or read on it raised, the loop reads no byte and
\* publishes no frame until a connect has succeeded. (The claim as stated;
\* the code violates it.)
C11_TransportErrorIsTerminal ==
    [][ link_down => (nread' = nread /\ published' = published) ]_vars

----------------------------------------------------------------------------
\* Liveness of the handoff (checked under SpecMailboxFair).

\* A read of GUI.img has returned frame k or a later one.
Taken(k) == \E i \in 1 .. Len(reads) : reads[i][2] >= k

\* update_image has returned from its call with frame k.
Completed(k) == npub > k \/ (npub = k /\ up_pc = "idle")

\* C12: the timer is re-armed by every call of refresh_image, whatever the
\* call did; every call of update_image returns; and a frame whose
\* update_image has returned while a call of refresh_image is still to come
\* is eventually taken, itself or a later frame, by a read of GUI.img.
C12_PublishedEventuallyTaken ==
    /\ [](gui_pc # "stopped")
    /\ \A k \in 1 .. MaxFrames :
          /\ (npub >= k) ~> Completed(k)
          /\ (Completed(k) /\ ntick < MaxTicks) ~> Taken(k)

\* C12's case: the first call found the lock held and drew nothing, the
\* second took frame 1 and its drawing raised, and the third took frame 2.
C12_Witness ==
    /\ ntick = 3
    /\ gui_pc = "idle"
    /\ ReadsOf(1) = {}
    /\ \E i \in ReadsOf(2) : reads[i][2] = 1
    /\ \A j \in 1 .. Len(rendered) : rendered[j][1] # 2
    /\ \E i \in ReadsOf(3) : reads[i][2] = 2

----------------------------------------------------------------------------
\* SpecFrame: the ingestion loop over one well-formed RGB888 frame line of
\* any small size, alone or after an earlier line.

\* Largest width and height of the frame.
MaxWidth == 4
MaxHeight == 2

\* n pixel bytes, all different from their neighbours.
Pixels(n, seed) == [i \in 1 .. n |-> (seed + 37 * i) % 256]

PixelSeeds == {0, 250}

\* What precedes the frame line: nothing, a diagnostic line, or a
\* well-formed grayscale frame.
FramePrefixes == { <<>>, <<8>>, <<2>> }

\* The frames published while the prefix is read.
PrefixFrames(prefix) ==
    Len(SelectSeq(prefix, LAMBDA i : Catalogue[i].kind = "image"))

\* Lines 401-405, before the device has sent the prefix and then the frame
\* line described by d.
FrameInit(d) ==
    /\ lines = << d >>
    /\ stream = StreamOf(d.prefix)
                 \o EimlLine(EIML_RGB888, d.width, d.height, d.data)
    /\ sent = 0
    /\ nread = 0
    /\ rx_pc = "poll"
    /\ rx_buf = ScannerInit.rx_buf
    /\ rx_mode = ScannerInit.rx_mode
    /\ idx = ScannerInit.idx
    /\ rx_img = ScannerInit.rx_img
    /\ emitted = <<>>
    /\ published = <<>>
    /\ rx_event = NoEvent

InitFrame ==
    /\ \E w \in 1 .. MaxWidth, h \in 1 .. MaxHeight, seed \in PixelSeeds,
          prefix \in FramePrefixes :
          FrameInit([prefix |-> prefix, width |-> w, height |-> h,
                     data |-> Pixels(w * h * 3, seed)])
    /\ BoxInit
    /\ MbInit
    /\ PortOpenInit

SpecFrame == InitFrame /\ [][NextRx]_vars

\* C13: a well-formed RGB888 frame line is decoded exactly. Once the loop
\* has read the line, update_image was called once for it, with an image
\* whose width and height are the header's and whose pixels are the bytes
\* after the 12-byte header; GUI.img holds it; and nothing was published
\* for the line before its last byte.
C13_WellFormedFrameDecodedExactly ==
    LET d == lines[1]
    IN  /\ nread < Len(stream) => Len(published) <= PrefixFrames(d.prefix)
        /\ nread = Len(stream) =>
              /\ rx_event.lf
              /\ rx_event.mode = RX_EIML
              /\ rx_event.calls = 1
              /\ rx_event.msg_len = EIML_HEADER_SIZE + Len(d.data)
              /\ Len(published) = PrefixFrames(d.prefix) + 1
              /\ Last(published) = Frame(d.width, d.height, d.data)
              /\ img = << Frame(d.width, d.height, d.data) >>
              /\ ~img_mutex

\* C13's case: the frame of width 4 and height 2 with its 24 pixel bytes,
\* alone on the stream, has been read and published.
C13_Witness ==
    /\ lines[1].prefix = <<>>
    /\ lines[1].width = 4
    /\ lines[1].height = 2
    /\ Len(lines[1].data) = 24
    /\ nread = Len(stream)
    /\ published = << Frame(4, 2, lines[1].data) >>

----------------------------------------------------------------------------
\* Further properties of the handoff (checked under SpecMailbox).

\* The mailbox was empty when the last call of refresh_image began: nothing
\* had been published yet, or the newest frame published by then had
\* already been taken by an earlier call.
EmptyAtTick ==
    \/ tick_pub = 0
    \/ \E i \in 1 .. Len(reads) :
          reads[i][1] < ntick /\ reads[i][2] = tick_pub

\* C14: a take on an empty mailbox does not wait and returns nothing. A
\* call of refresh_image that begins when no frame was published since the
\* last take (or ever) is over at once: it does not get the lock, reads
\* GUI.img not once and draws nothing. (The claim as stated; the code
\* violates it.)
C14_EmptyTakeReturnsNothing ==
    (ntick > 0 /\ EmptyAtTick) =>
        /\ ~took
        /\ gui_pc = "idle"
        /\ ReadsOf(ntick) = {}
        /\ \A j \in 1 .. Len(rendered) : rendered[j][1] # ntick

----------------------------------------------------------------------------
\* Further properties of the ingestion loop (checked under SpecRx).

\* C15: once the loop has processed a line feed, whatever the mode was and
\* however the decoding went, rx_buf is empty and rx_mode is RX_STRING
\* before the next byte is appended. (The claim as stated; the code violates
\* it.)
C15_LineFeedResetsScanner ==
    rx_event.lf => (rx_buf = <<>> /\ rx_mode = RX_STRING)

\* Does the line start with the marker.
StartsWith(line, marker) ==
    Len(line) >= Len(marker) /\ SubSeq(line, 1, Len(marker)) = marker

\* The kind the first four bytes of a line stand for.
KindOf(line) ==
    IF StartsWith(line, JPEG_SOF_B64) THEN RX_JPEG
    ELSE IF StartsWith(line, EIML_SOF_B64) THEN RX_EIML
    ELSE RX_STRING

\* How many of the first k lines of the stream start with a marker.
RECURSIVE MarkerLines(_, _)
MarkerLines(ls, k) ==
    IF k = 0 THEN 0
    ELSE MarkerLines(ls, k - 1)
         + (IF KindOf(Catalogue[ls[k]].bytes) # RX_STRING THEN 1 ELSE 0)

\* C16: classification is by prefix only. For every line of the stream, a
\* decode is attempted exactly when its first four bytes are '/9j/' or
\* '/6D/', the decoder is handed the line less its last two bytes with the
\* kind of the marker, a line without a marker at its start is handed to no
\* decoder and publishes nothing, and the mode is RX_STRING afterwards.
\* (The claim as stated; the code violates it.)
C16_ClassifiedByPrefix ==
    \A k \in 1 .. Len(lines) :
        AtEndOfLine(k) =>
            LET line == Catalogue[lines[k]].bytes
            IN  /\ rx_event.mode = KindOf(line)
                /\ rx_mode = RX_STRING
                /\ Len(emitted) = MarkerLines(lines, k)
                /\ KindOf(line) # RX_STRING =>
                      Last(emitted) = [kind |-> KindOf(line),
                                       payload |-> DropLastTwo(line)]
                /\ KindOf(line) = RX_STRING => rx_event.calls = 0

----------------------------------------------------------------------------
\* SpecFlood: the ingestion loop over bytes that hold no line feed, after a
\* marker or not.

\* Most bytes of a stream without a line terminator.
MaxFlood == 8

\* n bytes without a line feed that start with `prefix` (as much of it as
\* fits) and go on with the letter 'A'.
Flood(prefix, n) ==
    [i \in 1 .. n |-> IF i <= Len(prefix) THEN prefix[i] ELSE 65]

FloodPrefixes == { <<>>, JPEG_SOF_B64, EIML_SOF_B64 }

\* Lines 401-405, before the device has sent the bytes of `bytes`.
FloodInit(prefix, bytes) ==
    /\ lines = << prefix >>
    /\ stream = bytes
    /\ sent = 0
    /\ nread = 0
    /\ rx_pc = "poll"
    /\ rx_buf = ScannerInit.rx_buf
    /\ rx_mode = ScannerInit.rx_mode
    /\ idx = ScannerInit.idx
    /\ rx_img = ScannerInit.rx_img
    /\ emitted = <<>>
    /\ published = <<>>
    /\ rx_event = NoEvent

InitFlood ==
    /\ \E prefix \in FloodPrefixes, n \in 1 .. MaxFlood :
          FloodInit(prefix, Flood(prefix, n))
    /\ BoxInit
    /\ MbInit
    /\ PortOpenInit

SpecFlood == InitFlood /\ [][NextRx]_vars

\* C17: a buffer that grows oversized with no line terminator in sight is
\* discarded and the scanner reset, so that the length of rx_buf stays
\* bounded whatever the stream: wherever that limit lies, rx_buf never
\* holds as many as MaxFlood bytes. (The claim as stated; the code violates
\* it.)
C17_BufferStaysBounded ==
    Len(rx_buf) < MaxFlood

----------------------------------------------------------------------------
\* The lock of the handoff (checked under SpecMailbox).

\* refresh_image is between its take and its return.
Rendering == gui_pc \in {"size", "disp", "draw"}

\* C18, as stated: img_mutex is held only for the swap, and in no reachable
\* state while refresh_image is between its take and its return. (The code
\* violates it.)
C18_LockHeldOnlyForSwap ==
    Rendering => ~img_mutex

\* C18, amended: img_mutex is held from construction and from every take
\* until the next update_image returns, rendering included, and it is free
\* exactly when an update_image has returned since the last take;
\* refresh_image never releases it.
C18_LockIsHeldUntilNextUpdate ==
    /\ img_mutex <=> (fresh = 0)
    /\ (Rendering /\ fresh = 0) => (took /\ img_mutex)

\* C18's case: refresh_image is about to draw the frame it took, nothing
\* was published since its take, and the lock is held.
C18_Witness ==
    /\ gui_pc = "draw"
    /\ took
    /\ fresh = 0
    /\ img_mutex
    /\ up_pc = "idle"

----------------------------------------------------------------------------
\* Further properties of the link (checked under SpecLink).

\* C19: connect, close and the handling of a failed poll or read leave
\* rx_buf and rx_mode as they are, so what was accumulated before a
\* disconnect and what is received after the next connect are framed as one
\* stream: at any time the decoders were handed, and the GUI was given,
\* what one uninterrupted run over the bytes read so far hands and gives.
C19_LinkEventsKeepScanner ==
    /\ [][ (OnConnectClicked \/ Close \/ TransportError \/ PortNotOpen)
             => (rx_buf' = rx_buf /\ rx_mode' = rx_mode) ]_vars
    /\ [](LET whole == RunAll(ScannerInit, SubSeq(stream, 1, nread))
          IN  /\ rx_buf = whole.rx_buf
              /\ rx_mode = whole.rx_mode
              /\ emitted = whole.emitted
              /\ published = whole.published)

\* C19's case: with part of a raw frame in rx_buf the poll failed on the
\* closed port, a click on Connect has since opened it again, and the
\* partial frame is still there, waiting for its line terminator.
C19_Witness ==
    /\ rx_event.escaped
    /\ ~rx_event.lf
    /\ ser_open
    /\ ~link_down
    /\ connected
    /\ rx_mode = RX_EIML
    /\ Len(rx_buf) > Len(EIML_SOF_B64)
    /\ sent = nread

----------------------------------------------------------------------------
\* SpecScan: the ingestion loop over streams put together from markers,
\* single bytes and line terminators in any order.

\* Pieces per stream.
MaxPieces == 3

\* The pieces: the two markers, a slash, the letter 'A', a bare line feed,
\* and CR LF.
Pieces ==
    << EIML_SOF_B64, JPEG_SOF_B64, << 47 >>, << 65 >>, << LF >>, << CR, LF >> >>

PieceSeqs == UNION { [1 .. n -> 1 .. Len(Pieces)] : n \in 1 .. MaxPieces }

\* Lines 401-405, before the device has sent the pieces ps.
ScanInit(ps) ==
    /\ lines = ps
    /\ stream = Concat([i \in 1 .. Len(ps) |-> Pieces[ps[i]]])
    /\ sent = 0
    /\ nread = 0
    /\ rx_pc = "poll"
    /\ rx_buf = ScannerInit.rx_buf
    /\ rx_mode = ScannerInit.rx_mode
    /\ idx = ScannerInit.idx
    /\ rx_img = ScannerInit.rx_img
    /\ emitted = <<>>
    /\ published = <<>>
    /\ rx_event = NoEvent

InitScan ==
    /\ \E ps \in PieceSeqs : ScanInit(ps)
    /\ BoxInit
    /\ MbInit
    /\ PortOpenInit

SpecScan == InitScan /\ [][NextRx]_vars

\* The buffer holds no line feed.
NoLineFeed(buf) == \A i \in 1 .. Len(buf) : buf[i] # LF

\* C20: between processed bytes, rx_mode = RX_JPEG only with an rx_buf that
\* starts with '/9j/' and rx_mode = RX_EIML only with one that starts with
\* '/6D/', without a line feed in it; and rx_mode leaves RX_STRING only in
\* the step after which rx_buf is exactly the marker of the new mode.
C20_ModeImpliesMarker ==
    /\ [](/\ rx_mode \in {RX_STRING, RX_JPEG, RX_EIML}
          /\ rx_mode = RX_JPEG =>
                (StartsWith(rx_buf, JPEG_SOF_B64) /\ NoLineFeed(rx_buf))
          /\ rx_mode = RX_EIML =>
                (StartsWith(rx_buf, EIML_SOF_B64) /\ NoLineFeed(rx_buf)))
    /\ [][ (rx_mode = RX_STRING /\ rx_mode' # RX_STRING) =>
              \/ rx_mode' = RX_JPEG /\ rx_buf' = JPEG_SOF_B64
              \/ rx_mode' = RX_EIML /\ rx_buf' = EIML_SOF_B64 ]_vars

\* C20's case: a raw frame is being collected after an earlier line was
\* handed to a decoder, and the buffer has grown past its marker.
C20_Witness ==
    /\ rx_mode = RX_EIML
    /\ emitted # <<>>
    /\ StartsWith(rx_buf, EIML_SOF_B64)
    /\ Len(rx_buf) > Len(EIML_SOF_B64)

----------------------------------------------------------------------------
\* The lock as a fresh flag (checked under SpecMailbox).

\* C21: the fresh-flag invariant of the handoff. Before anything was
\* published or taken the lock is held and GUI.img is unset; img_mutex is
\* unlocked only if update_image has assigned GUI.img since the last take
\* that succeeded; and a refresh_image call whose acquire succeeded finds
\* GUI.img set, to a frame update_image was given. (The claim as stated; the
\* code violates it.)
C21_UnlockedOnlyIfAssignedSinceTake ==
    /\ (npub = 0 /\ ntick = 0) => (img_mutex /\ img = <<>>)
    /\ ~img_mutex => assigned > 0
    /\ gui_pc = "size" => (img # <<>> /\ img[1] \in 1 .. npub)

====
